---- MODULE Spec2Model ----
(***************************************************************************)
(* A model of package o of donnie24680/aio: the connection registry and    *)
(* transaction helpers (GormDBs, InitDBWithMap, CloseAllDBs, BeginTx,      *)
(* CommitTx), the Where condition translator (applyGormWhere) and the      *)
(* query facade built on them (Query, Find, ..., Update, Delete and their  *)
(* *Tx variants).                                                          *)
(*                                                                         *)
(* Conventions.  A Go string that the code inspects or concatenates is a   *)
(* sequence of one-character strings; an error is the sequence of the      *)
(* pieces fmt.Errorf assembles, and the nil error is the empty sequence.   *)
(* The engine (gorm / database/sql) is opaque: each of its calls is        *)
(* recorded in the operation's call log and its outcome is chosen          *)
(* nondeterministically.  A run-time panic (nil dereference, failed type   *)
(* assertion, index out of range) is the outcome panicked = TRUE.          *)
(***************************************************************************)
EXTENDS Integers, Sequences, FiniteSets, TLC

VARIABLES GormDBs, nextConn, txs, last

vars == <<GormDBs, nextConn, txs, last>>

----------------------------------------------------------------------------
(* Bounds of the model *)

\* most Where groups passed to one call
MaxGroups == 2
\* most condition tuples in one call, over all its groups
MaxConds == 2
\* longest raw-SQL condition tuple
MaxTupleLen == 4
\* connections the engine opens in one run
MaxConns == 2
\* transactions begun in one run
MaxTx == 1

----------------------------------------------------------------------------
(* Go values of type any, as the translator sees them *)

StrV(s) == [k |-> "string", v |-> s]
IntV(d) == [k |-> "int", v |-> <<d>>]
AnysV(s) == [k |-> "[]interface{}", v |-> s]
IntsV(s) == [k |-> "[]int", v |-> s]

LowerTab ==
  [c \in {"A","B","C","D","E","F","G","H","I","J","K","L","M",
          "N","O","P","Q","R","S","T","U","V","W","X","Y","Z"} |->
     CASE c = "A" -> "a" [] c = "B" -> "b" [] c = "C" -> "c" [] c = "D" -> "d"
       [] c = "E" -> "e" [] c = "F" -> "f" [] c = "G" -> "g" [] c = "H" -> "h"
       [] c = "I" -> "i" [] c = "J" -> "j" [] c = "K" -> "k" [] c = "L" -> "l"
       [] c = "M" -> "m" [] c = "N" -> "n" [] c = "O" -> "o" [] c = "P" -> "p"
       [] c = "Q" -> "q" [] c = "R" -> "r" [] c = "S" -> "s" [] c = "T" -> "t"
       [] c = "U" -> "u" [] c = "V" -> "v" [] c = "W" -> "w" [] c = "X" -> "x"
       [] c = "Y" -> "y" [] c = "Z" -> "z"]

\* strings.ToLower
ToLower(s) ==
  [i \in 1..Len(s) |-> IF s[i] \in DOMAIN LowerTab THEN LowerTab[s[i]] ELSE s[i]]

\* the operator tokens of applyGormWhere's inner switch
OpsCompare == { <<"=">>, <<">">>, <<"<">>, <<">", "=">>, <<"<", "=">>,
                <<"!", "=">>, <<"<", ">">> }
OpsLike == { <<"l","i","k","e">>, <<"n","o","t"," ","l","i","k","e">> }
OpsIn == { <<"i","n">>, <<"n","o","t"," ","i","n">> }
OpsBetween == { <<"b","e","t","w","e","e","n">>,
                <<"n","o","t"," ","b","e","t","w","e","e","n">> }

----------------------------------------------------------------------------
(* The query builder: the handle it runs on, its table, the predicates    *)
(* added by Where in order, and whether building it panicked.             *)

NewQuery(on, table) ==
  [on |-> on, table |-> table, preds |-> <<>>, panicked |-> FALSE]

\* (*gorm.DB).Where(sql, params...): one more predicate, ANDed to the rest
AddWhere(query, sql, params) ==
  [query EXCEPT !.preds = Append(@, [sql |-> sql, params |-> params])]

Panicked(query) == [query EXCEPT !.panicked = TRUE]

\* element i of a []interface{} value
SliceElem(value, i) == [k |-> "elem", v |-> <<value.v[i]>>]

\* case 3 of applyGormWhere, after the field and operator type assertions
applyOperator(query, field, operator, value) ==
  IF operator \in OpsCompare \cup OpsLike
    THEN AddWhere(query, field \o <<" ">> \o operator \o <<" ", "?">>, <<value>>)
  ELSE IF operator \in OpsIn
    THEN AddWhere(query, field \o <<" ">> \o operator \o <<" ", "(", "?", ")">>, <<value>>)
  ELSE IF operator \in OpsBetween
    THEN IF value.k = "[]interface{}" /\ Len(value.v) = 2
           THEN AddWhere(query,
                  field \o <<" ">> \o operator \o <<" ", "?", " ", "A", "N", "D", " ", "?">>,
                  <<SliceElem(value, 1), SliceElem(value, 2)>>)
           ELSE query
  ELSE query

\* one iteration of applyGormWhere's inner loop: the switch on len(arg)
applyCond(query, arg) ==
  IF query.panicked THEN query
  ELSE IF Len(arg) = 2
    THEN IF arg[1].k # "string" THEN Panicked(query)
         ELSE AddWhere(query, arg[1].v \o <<" ", "=", " ", "?">>, <<arg[2]>>)
  ELSE IF Len(arg) = 3
    THEN IF arg[1].k # "string" THEN Panicked(query)
         ELSE IF arg[2].k # "string" THEN query
         ELSE applyOperator(query, arg[1].v, ToLower(arg[2].v), arg[3])
  ELSE IF Len(arg) = 0 THEN Panicked(query)
  ELSE IF arg[1].k # "string" THEN Panicked(query)
  ELSE AddWhere(query, arg[1].v, Tail(arg))

RECURSIVE applyGroup(_, _)
applyGroup(query, w) ==
  IF w = <<>> THEN query
  ELSE applyGroup(applyCond(query, Head(w)), Tail(w))

RECURSIVE applyGormWhere(_, _)
applyGormWhere(query, args) ==
  IF args = <<>> THEN query
  ELSE applyGormWhere(applyGroup(query, Head(args)), Tail(args))

----------------------------------------------------------------------------
(* Errors *)

Nil == <<>>

\* an error the engine reports
EngineErr == <<"engine error">>

\* whether error e embeds the message sub
Contains(e, sub) ==
  \E i \in 1..(Len(e) - Len(sub) + 1) : SubSeq(e, i, i + Len(sub) - 1) = sub

ErrTxNil == <<"transaction is nil">>
ErrUpdateNoCond == <<"update: invalid condition">>
ErrDeleteNoCond == <<"delete: invalid condition">>
ErrNotFound(dbName) == <<"database ", dbName, " not found">>
ErrConfig(name) ==
  <<"invalid configuration for database ", name, ": missing required fields">>
ErrConnect(name, e) == <<"failed to connect to ", name, " database: ">> \o e
ErrSqlDB(name, e) == <<"failed to get underlying sql.DB for ", name, ": ">> \o e
ErrCloseSqlDB(name, e) == <<"failed to get sql.DB for ", name, ": ">> \o e
ErrClose(name, e) == <<"failed to close ", name, " database: ">> \o e
\* ErrRollback with the original error left out of the message
ErrRollbackDropsOriginal(rollbackErr, err) ==
  <<"rollback failed: ">> \o rollbackErr

ErrRollback(rollbackErr, err) ==
  <<"rollback failed: ">> \o rollbackErr \o <<", original error: ">> \o err
ErrCommit(commitErr) == <<"commit failed: ">> \o commitErr

----------------------------------------------------------------------------
(* The connection registry *)

Mysql == "mysql"

\* the names a caller may configure or look up
Names == {"", Mysql, "db2"}

\* A *gorm.DB handle: nil, a pooled connection, or a transaction
NilDB == [kind |-> "nil", id |-> 0]
Conn(i) == [kind |-> "db", id |-> i]
Tx(i) == [kind |-> "tx", id |-> i]

\* GetDB
GetDB(reg, name) ==
  IF name = "" THEN NilDB
  ELSE IF name \in DOMAIN reg /\ reg[name] # NilDB THEN reg[name]
  ELSE NilDB

\* GetDBDefault
GetDBDefault(reg) ==
  IF Mysql \in DOMAIN reg /\ reg[Mysql] # NilDB THEN reg[Mysql] ELSE NilDB

DefaultOptions ==
  [key \in {"charset", "parseTime", "loc"} |->
     CASE key = "charset" -> "utf8mb4"
       [] key = "parseTime" -> "True"
       [] key = "loc" -> "Local"]

\* buildDSN: the base string and the merged options (the caller's win);
\* the order of the options in the string is the map's, left unspecified
buildDSN(host, port, user, password, dbname, options) ==
  [base |-> <<user, ":", password, "@tcp(", host, ":", port, ")/", dbname>>,
   options |-> [key \in DOMAIN DefaultOptions \cup DOMAIN options |->
                  IF key \in DOMAIN options THEN options[key]
                  ELSE DefaultOptions[key]]]

ValidConfig ==
  [Host |-> "h", Port |-> "3306", User |-> "u", Password |-> "p", DBName |-> "d",
   Options |-> [key \in {"charset"} |-> "latin1"],
   MaxIdleConns |-> 5, MaxOpenConns |-> 0, MaxLifetime |-> 60, MaxIdleTime |-> 0]

\* the configurations callers pass in the model
Configs ==
  { ValidConfig,
    [ValidConfig EXCEPT !.Host = ""], [ValidConfig EXCEPT !.Port = ""],
    [ValidConfig EXCEPT !.User = ""], [ValidConfig EXCEPT !.DBName = ""] }

\* the required-field test of InitDBWithMap
MissingRequired(config) ==
  config.Host = "" \/ config.Port = "" \/ config.User = "" \/ config.DBName = ""

\* the pool setters InitDBWithMap applies: only those with a positive value
PoolCalls(db, config) ==
  (IF config.MaxIdleConns > 0
     THEN <<[call |-> "SetMaxIdleConns", on |-> db, arg |-> config.MaxIdleConns]>> ELSE <<>>)
  \o (IF config.MaxOpenConns > 0
     THEN <<[call |-> "SetMaxOpenConns", on |-> db, arg |-> config.MaxOpenConns]>> ELSE <<>>)
  \o (IF config.MaxLifetime > 0
     THEN <<[call |-> "SetConnMaxLifetime", on |-> db, arg |-> config.MaxLifetime]>> ELSE <<>>)
  \o (IF config.MaxIdleTime > 0
     THEN <<[call |-> "SetConnMaxIdleTime", on |-> db, arg |-> config.MaxIdleTime]>> ELSE <<>>)

\* the orders in which a Go range may visit the keys S of a map
Orders(S) ==
  { o \in [1..Cardinality(S) -> S] : \A i, j \in 1..Cardinality(S) : o[i] = o[j] => i = j }

\* register db under name, replacing any prior entry
Register(reg, name, db) ==
  [n \in DOMAIN reg \cup {name} |-> IF n = name THEN db ELSE reg[n]]

\* The loop of InitDBWithMap over the keys still to visit.  st carries the
\* registry, the connections opened so far and the engine calls made;
\* engine[name] is what the engine does for that entry.
RECURSIVE initLoop(_, _, _, _)
initLoop(st, order, configs, engine) ==
  IF order = <<>> THEN [st EXCEPT !.err = Nil]
  ELSE LET name == Head(order)
           config == configs[name]
           dsn == buildDSN(config.Host, config.Port, config.User, config.Password,
                           config.DBName, config.Options)
           db == Conn(st.next + 1)
           opened == [call |-> "Open", on |-> db, arg |-> dsn]
       IN IF MissingRequired(config)
            THEN [st EXCEPT !.err = ErrConfig(name)]
          ELSE IF engine[name] = "open fails"
            THEN [st EXCEPT !.err = ErrConnect(name, EngineErr),
                            !.calls = Append(@, [opened EXCEPT !.on = NilDB])]
          ELSE IF engine[name] = "DB fails"
            THEN [st EXCEPT !.err = ErrSqlDB(name, EngineErr), !.next = @ + 1,
                            !.calls = Append(@, opened)]
          ELSE initLoop([st EXCEPT !.reg = Register(@, name, db), !.next = @ + 1,
                                   !.calls = Append(@, opened) \o PoolCalls(db, config)],
                        Tail(order), configs, engine)

EngineOpen == {"ok", "open fails", "DB fails"}

\* most entries of one configuration map
MaxMapSize == 2

\* the configurations of the maps passed to InitDBWithMap in the model
MapConfigs ==
  { ValidConfig, [ValidConfig EXCEPT !.Host = ""], [ValidConfig EXCEPT !.DBName = ""] }

ConfigMaps ==
  UNION { [S -> MapConfigs] : S \in { T \in SUBSET Names : Cardinality(T) \in 1..MaxMapSize } }

\* The engine's answers are chosen only for the entries the loop reaches
\* and opens: an entry that fails validation, or that follows the entry the
\* loop returned at, asks the engine nothing.
Consulted(configs, order, engine) ==
  \A i \in DOMAIN order :
    (\/ MissingRequired(configs[order[i]])
     \/ \E j \in 1..(i - 1) : \/ MissingRequired(configs[order[j]])
                              \/ engine[order[j]] # "ok")
    => engine[order[i]] = "ok"

InitDBWithMapResult(reg, next, configs, order, engine) ==
  initLoop([reg |-> reg, next |-> next, calls |-> <<>>, err |-> Nil],
           order, configs, engine)

\* The loop of CloseAllDBs over the registered names in the order a range
\* visits them; engine[name] is what the engine does for that connection.
RECURSIVE closeLoop(_, _, _, _)
closeLoop(st, order, reg, engine) ==
  IF order = <<>> THEN st
  ELSE LET name == Head(order)
           db == reg[name]
           getDB == [call |-> "DB", on |-> db, arg |-> name]
           close == [call |-> "Close", on |-> db, arg |-> name]
           after ==
             IF db = NilDB THEN st
             ELSE IF engine[name] = "DB fails"
               THEN [st EXCEPT !.lastErr = ErrCloseSqlDB(name, EngineErr),
                               !.calls = Append(@, getDB)]
             ELSE IF engine[name] = "close fails"
               THEN [st EXCEPT !.lastErr = ErrClose(name, EngineErr),
                               !.calls = Append(Append(@, getDB), close)]
             ELSE [st EXCEPT !.calls = Append(Append(@, getDB), close)]
       IN closeLoop(after, Tail(order), reg, engine)

EngineClose == {"ok", "DB fails", "close fails"}

\* CloseAllDBs returning at the first failure instead of going on
RECURSIVE closeLoopStops(_, _, _, _)
closeLoopStops(st, order, reg, engine) ==
  IF order = <<>> \/ st.lastErr # Nil THEN st
  ELSE closeLoopStops(closeLoop(st, <<Head(order)>>, reg, engine),
                      Tail(order), reg, engine)

CloseAllDBsStopsAtFailure(reg, order, engine) ==
  closeLoopStops([lastErr |-> Nil, calls |-> <<>>], order, reg, engine)

CloseAllDBsResult(reg, order, engine) ==
  closeLoop([lastErr |-> Nil, calls |-> <<>>], order, reg, engine)

----------------------------------------------------------------------------
(* Transactions.  txs holds the state of each transaction begun, in the   *)
(* order they were begun; Tx(i) is the handle of the i-th.                *)

TxStates == {"active", "failed", "committed", "rolled back"}

\* CommitTx that does not store a failed commit in *err
CommitTxSwallowsCommitFailure(tx, err, engineOk) ==
  IF tx = NilDB
    THEN [err |-> IF err = Nil THEN ErrTxNil ELSE err, calls |-> <<>>]
  ELSE IF err # Nil
    THEN [err |-> IF engineOk THEN err ELSE ErrRollback(EngineErr, err),
          calls |-> <<[call |-> "Rollback", on |-> tx, ok |-> engineOk]>>]
  ELSE [err |-> Nil,
        calls |-> <<[call |-> "Commit", on |-> tx, ok |-> engineOk]>>]

\* CommitTx on transaction handle tx with *err = err on entry; engineOk is
\* whether the engine call it issues (if any) succeeds
CommitTxResult(tx, err, engineOk) ==
  IF tx = NilDB
    THEN [err |-> IF err = Nil THEN ErrTxNil ELSE err, calls |-> <<>>]
  ELSE IF err # Nil
    THEN [err |-> IF engineOk THEN err ELSE ErrRollback(EngineErr, err),
          calls |-> <<[call |-> "Rollback", on |-> tx, ok |-> engineOk]>>]
  ELSE [err |-> IF engineOk THEN Nil ELSE ErrCommit(EngineErr),
        calls |-> <<[call |-> "Commit", on |-> tx, ok |-> engineOk]>>]

\* the state of a transaction after the calls CommitTx issued on it
TxAfter(state, calls) ==
  IF calls = <<>> \/ ~calls[1].ok THEN state
  ELSE IF calls[1].call = "Commit" THEN "committed"
  ELSE "rolled back"

\* the errors a caller holds in *err when it reaches CommitTx
CallerErrs == { Nil, <<"caller failed">>, ErrTxNil }

----------------------------------------------------------------------------
(* The query facade *)

\* what the engine answers to an executed statement
EngineResults == { Nil, EngineErr }

\* the row counts the engine reports
Counts == { 0, 2 }

OutPanic == [err |-> Nil, panicked |-> TRUE, calls |-> <<>>, ret |-> "none"]
OutErr(e) == [err |-> e, panicked |-> FALSE, calls |-> <<>>, ret |-> "none"]

\* One engine execution on a built query: verb is the gorm finisher.
Exec(query, verb, arg, ok) ==
  [call |-> verb, on |-> query.on, table |-> query.table, preds |-> query.preds,
   arg |-> arg, ok |-> ok]

\* (*gorm.DB).Table on handle db: gorm dereferences its receiver, so a nil
\* handle panics
Table(db, table) ==
  IF db = NilDB THEN Panicked(NewQuery(NilDB, table)) ELSE NewQuery(db, table)

\* Query: the builder on the default connection
QueryBuilder(reg, table, args) ==
  LET query == Table(GetDBDefault(reg), table)
  IN IF query.panicked THEN query ELSE applyGormWhere(query, args)

\* a finisher called on what Query returned, and its .Error
Finish(query, verb, arg, e, ret) ==
  IF query.panicked THEN OutPanic
  ELSE [err |-> e, panicked |-> FALSE, ret |-> ret,
        calls |-> <<Exec(query, verb, arg, e = Nil)>>]

\* setTimeFields: stamps the time fields of a struct; every path returns nil
setTimeFields(data) ==
  [err |-> Nil, data |-> IF data = "struct" THEN "struct stamped" ELSE data]

\* the batch size of InsertBatch and InsertBatchTx
BatchSize == 100

\* Paginate: Count, then Offset/Limit/Find unless Count failed
PaginateResult(query, offset, limit, e1, total, e2) ==
  IF query.panicked THEN OutPanic
  ELSE IF e1 # Nil
    THEN [err |-> e1, panicked |-> FALSE, ret |-> 0,
          calls |-> <<Exec(query, "Count", "none", FALSE)>>]
  ELSE [err |-> e2, panicked |-> FALSE, ret |-> total,
        calls |-> <<Exec(query, "Count", "none", TRUE),
                    Exec(query, "Find", <<"offset", offset, "limit", limit>>, e2 = Nil)>>]

UpdateResult(reg, table, data, args, e) ==
  IF Len(args) = 0 THEN OutErr(ErrUpdateNoCond)
  ELSE Finish(QueryBuilder(reg, table, args), "Updates", data, e, "none")

DeleteResult(reg, table, args, e) ==
  IF Len(args) = 0 THEN OutErr(ErrDeleteNoCond)
  ELSE Finish(QueryBuilder(reg, table, args), "Delete", "none", e, "none")

\* QueryTx: nil for a nil transaction, else the builder on the transaction
QueryTxBuilder(tx, table, args) ==
  IF tx = NilDB THEN Panicked(NewQuery(NilDB, table))
  ELSE applyGormWhere(Table(tx, table), args)

QueryTxResult(tx, table, args) ==
  IF tx = NilDB
    THEN [err |-> Nil, panicked |-> FALSE, calls |-> <<>>, ret |-> "nil"]
  ELSE LET query == applyGormWhere(Table(tx, table), args)
       IN IF query.panicked THEN OutPanic
          ELSE [err |-> Nil, panicked |-> FALSE, calls |-> <<>>, ret |-> query]

InsertTxResult(tx, table, data, e) ==
  IF tx = NilDB THEN OutErr(ErrTxNil)
  ELSE Finish(Table(tx, table), "Create", data, e, "none")

InsertStructTxResult(tx, table, data, e) ==
  IF tx = NilDB THEN OutErr(ErrTxNil)
  ELSE IF setTimeFields(data).err # Nil THEN OutErr(setTimeFields(data).err)
  ELSE Finish(Table(tx, table), "Create", setTimeFields(data).data, e, "none")

InsertBatchTxResult(tx, table, data, e) ==
  IF tx = NilDB THEN OutErr(ErrTxNil)
  ELSE Finish(Table(tx, table), "CreateInBatches", <<data, BatchSize>>, e, "none")

UpdateTxResult(tx, table, data, args, e) ==
  IF tx = NilDB THEN OutErr(ErrTxNil)
  ELSE IF Len(args) = 0 THEN OutErr(ErrUpdateNoCond)
  ELSE Finish(QueryTxBuilder(tx, table, args), "Updates", data, e, "none")

DeleteTxResult(tx, table, args, e) ==
  IF tx = NilDB THEN OutErr(ErrDeleteNoCond)
  ELSE IF Len(args) = 0 THEN OutErr(ErrDeleteNoCond)
  ELSE Finish(QueryTxBuilder(tx, table, args), "Delete", "none", e, "none")

----------------------------------------------------------------------------
(* The inputs callers pass *)

FieldA == StrV(<<"a">>)
NotAString == IntV("7")
One == IntV("1")
Pair == AnysV(<<"1", "2">>)

AllOps == OpsCompare \cup OpsLike \cup OpsIn \cup OpsBetween

\* operator tokens the switch does not know, in the case the caller wrote
OddOps == { <<"!", "~">>, <<"i", "s">>, <<"=", " ">> }
UpperOps == { <<"B","E","T","W","E","E","N">>, <<"L","i","k","e">>, <<"I","N">>,
              <<"N","o","t"," ","B","e","t","w","e","e","n">> }

\* a raw-SQL tuple of length n >= 1
RawCond(n) == <<StrV(<<"x", " ", ">", " ", "?">>)>> \o [i \in 1..(n - 1) |-> One]

Conds2 == { <<FieldA, One>>, <<FieldA, Pair>>, <<NotAString, One>> }

Conds3 ==
  { <<FieldA, StrV(op), One>> : op \in AllOps \cup OddOps \cup UpperOps }
  \cup { <<FieldA, StrV(op), value>> :
           op \in OpsBetween \cup UpperOps,
           value \in { AnysV(<<"1">>), Pair, AnysV(<<"1", "2", "3">>),
                       IntsV(<<"1", "2">>) } }
  \cup { <<FieldA, One, One>>, <<NotAString, StrV(<<"=">>), One>>,
         <<NotAString, StrV(<<"!", "~">>), One>> }

CondsRaw ==
  { <<>>, <<NotAString>>, <<NotAString, One, One, One>> }
  \cup { RawCond(n) : n \in {1} \cup 4..MaxTupleLen }

CondSet == Conds2 \cup Conds3 \cup CondsRaw

\* the ways to cut n conditions into at most MaxGroups groups
Cuts(n) ==
  { c \in UNION { [1..g -> 0..n] : g \in 0..MaxGroups } :
      /\ \A i \in DOMAIN c : \A j \in DOMAIN c : i <= j => c[i] <= c[j]
      /\ (n > 0 => (c # <<>> /\ c[Len(c)] = n)) }

\* the Where list made of the conditions flat, group i ending at cut[i]
Grouped(flat, cut) ==
  [i \in DOMAIN cut |-> SubSeq(flat, (IF i = 1 THEN 0 ELSE cut[i - 1]) + 1, cut[i])]

\* every condition of a Where list, in the order given
RECURSIVE Flatten(_)
Flatten(args) == IF args = <<>> THEN <<>> ELSE Head(args) \o Flatten(Tail(args))

CondEq == <<FieldA, One>>
CondBetween == <<FieldA, StrV(<<"b","e","t","w","e","e","n">>), Pair>>
CondDropped == <<FieldA, StrV(<<"b","e","t","w","e","e","n">>), One>>

\* the Where lists passed to the facade operations in the model
FacadeArgs ==
  { <<>>, << <<>> >>, << <<>>, <<>> >>,
    << <<CondEq>> >>, << <<CondDropped>>, <<CondEq, CondBetween>> >>,
    << << <<>> >> >> }

Tables == { "t" }
Data == { "struct", "map" }

----------------------------------------------------------------------------
(* The state machine *)

EmptyRegistry == [n \in {} |-> NilDB]

\* last holds the call in progress: its name, its inputs, what it returned
\* and the registry it started from.  Calls are made one at a time (the
\* registry is not synchronised and its callers serialise their calls):
\* a call starts when the caller holds no unread result.
Idle == [op |-> "idle", in |-> "none", out |-> "none", pre |-> EmptyRegistry]

Ready == last = Idle

Init ==
  /\ GormDBs = EmptyRegistry
  /\ nextConn = 0
  /\ txs = <<>>
  /\ last = Idle

\* an operation that leaves the registry and the transactions alone
Did(op, in, out) ==
  /\ last' = [op |-> op, in |-> in, out |-> out, pre |-> GormDBs]
  /\ UNCHANGED <<GormDBs, nextConn, txs>>

\* the handles a caller may hold: nil, or a transaction it began
TxHandles == { NilDB } \cup { Tx(i) : i \in DOMAIN txs }

InitDBWithMap ==
  /\ Ready
  /\ \E configs \in ConfigMaps :
    \E order \in Orders(DOMAIN configs), engine \in [DOMAIN configs -> EngineOpen] :
      LET r == InitDBWithMapResult(GormDBs, nextConn, configs, order, engine)
      IN /\ Consulted(configs, order, engine)
         /\ r.next <= MaxConns
         /\ GormDBs' = r.reg
         /\ nextConn' = r.next
         /\ last' = [op |-> "InitDBWithMap",
                     in |-> [configs |-> configs, order |-> order, engine |-> engine],
                     out |-> [err |-> r.err, calls |-> r.calls],
                     pre |-> GormDBs]
         /\ UNCHANGED txs

InitGormDB ==
  /\ Ready
  /\ \E config \in Configs, engine \in EngineOpen :
      LET configs == [n \in {Mysql} |-> config]
          r == InitDBWithMapResult(GormDBs, nextConn, configs, <<Mysql>>,
                                   [n \in {Mysql} |-> engine])
      IN /\ r.next <= MaxConns
         /\ GormDBs' = r.reg
         /\ nextConn' = r.next
         /\ last' = [op |-> "InitGormDB",
                     in |-> [configs |-> configs, order |-> <<Mysql>>,
                             engine |-> [n \in {Mysql} |-> engine]],
                     out |-> [err |-> r.err, calls |-> r.calls],
                     pre |-> GormDBs]
         /\ UNCHANGED txs

CloseAllDBs ==
  /\ Ready
  /\ \E order \in Orders(DOMAIN GormDBs), engine \in [DOMAIN GormDBs -> EngineClose] :
      LET r == CloseAllDBsResult(GormDBs, order, engine)
      IN /\ GormDBs' = EmptyRegistry
         /\ last' = [op |-> "CloseAllDBs",
                     in |-> [order |-> order, engine |-> engine],
                     out |-> [err |-> r.lastErr, calls |-> r.calls],
                     pre |-> GormDBs]
         /\ UNCHANGED <<nextConn, txs>>

\* BeginTx on dbName; e is the error the engine reports for Begin
BeginTxStep(op, dbName, e) ==
  LET db == GetDB(GormDBs, dbName)
      tx == Tx(Len(txs) + 1)
  IN IF db = NilDB
       THEN /\ last' = [op |-> op, in |-> [dbName |-> dbName],
                        out |-> [tx |-> NilDB, err |-> ErrNotFound(dbName), calls |-> <<>>],
                        pre |-> GormDBs]
            /\ UNCHANGED <<GormDBs, nextConn, txs>>
       ELSE /\ Len(txs) < MaxTx
            /\ txs' = Append(txs, IF e = Nil THEN "active" ELSE "failed")
            /\ last' = [op |-> op, in |-> [dbName |-> dbName],
                        out |-> [tx |-> tx, err |-> e,
                                 calls |-> <<[call |-> "Begin", on |-> db, ok |-> e = Nil]>>],
                        pre |-> GormDBs]
            /\ UNCHANGED <<GormDBs, nextConn>>

BeginTx ==
  /\ Ready
  /\ \E dbName \in Names, e \in EngineResults : BeginTxStep("BeginTx", dbName, e)

BeginTxDefault ==
  /\ Ready
  /\ \E e \in EngineResults : BeginTxStep("BeginTxDefault", Mysql, e)

CommitTx ==
  /\ Ready
  /\ \E tx \in TxHandles, err \in CallerErrs, engineOk \in BOOLEAN :
      LET r == CommitTxResult(tx, err, engineOk)
      IN /\ (tx # NilDB /\ txs[tx.id] # "active") => ~engineOk
         /\ txs' = IF tx = NilDB THEN txs
                   ELSE [txs EXCEPT ![tx.id] = TxAfter(@, r.calls)]
         /\ last' = [op |-> "CommitTx", in |-> [tx |-> tx, err |-> err],
                     out |-> r, pre |-> GormDBs]
         /\ UNCHANGED <<GormDBs, nextConn>>

Query ==
  /\ Ready
  /\ \E table \in Tables, args \in FacadeArgs :
    LET query == QueryBuilder(GormDBs, table, args)
    IN Did("Query", [table |-> table, args |-> args],
           IF query.panicked THEN OutPanic
           ELSE [err |-> Nil, panicked |-> FALSE, calls |-> <<>>, ret |-> query])

QueryTx ==
  /\ Ready
  /\ \E tx \in TxHandles, table \in Tables, args \in FacadeArgs :
    Did("QueryTx", [tx |-> tx, table |-> table, args |-> args],
        QueryTxResult(tx, table, args))

Find ==
  /\ Ready
  /\ \E table \in Tables, args \in FacadeArgs, e \in EngineResults :
    Did("Find", [table |-> table, args |-> args],
        Finish(QueryBuilder(GormDBs, table, args), "Find", "none", e, "none"))

First ==
  /\ Ready
  /\ \E table \in Tables, args \in FacadeArgs, e \in EngineResults :
    Did("First", [table |-> table, args |-> args],
        Finish(QueryBuilder(GormDBs, table, args), "First", "none", e, "none"))

Last ==
  /\ Ready
  /\ \E table \in Tables, args \in FacadeArgs, e \in EngineResults :
    Did("Last", [table |-> table, args |-> args],
        Finish(QueryBuilder(GormDBs, table, args), "Last", "none", e, "none"))

Take ==
  /\ Ready
  /\ \E table \in Tables, args \in FacadeArgs, e \in EngineResults :
    Did("Take", [table |-> table, args |-> args],
        Finish(QueryBuilder(GormDBs, table, args), "Take", "none", e, "none"))

Scan ==
  /\ Ready
  /\ \E table \in Tables, args \in FacadeArgs, e \in EngineResults :
    Did("Scan", [table |-> table, args |-> args],
        Finish(QueryBuilder(GormDBs, table, args), "Scan", "none", e, "none"))

Count ==
  /\ Ready
  /\ \E table \in Tables, args \in FacadeArgs, e \in EngineResults, count \in Counts :
    Did("Count", [table |-> table, args |-> args],
        Finish(QueryBuilder(GormDBs, table, args), "Count", "none", e,
               IF e = Nil THEN count ELSE 0))

Sum ==
  /\ Ready
  /\ \E table \in Tables, args \in FacadeArgs, e \in EngineResults :
    Did("Sum", [table |-> table, field |-> "a", args |-> args],
        Finish(QueryBuilder(GormDBs, table, args), "Scan",
               <<"select", "SUM(", "a", ")">>, e, "none"))

Pluck ==
  /\ Ready
  /\ \E table \in Tables, args \in FacadeArgs, e \in EngineResults :
    Did("Pluck", [table |-> table, field |-> "a", args |-> args],
        Finish(QueryBuilder(GormDBs, table, args), "Pluck", "a", e, "none"))

Paginate ==
  /\ Ready
  /\ \E table \in Tables, args \in FacadeArgs, e1 \in EngineResults, e2 \in EngineResults,
     total \in Counts, offset \in {10} :
    /\ e1 # Nil => (e2 = Nil /\ total = 0)
    /\ Did("Paginate", [table |-> table, offset |-> offset, limit |-> 5, args |-> args],
           PaginateResult(QueryBuilder(GormDBs, table, args), offset, 5, e1, total, e2))

Exists ==
  /\ Ready
  /\ \E table \in Tables, args \in FacadeArgs, e \in EngineResults, count \in Counts :
    Did("Exists", [table |-> table, args |-> args],
        Finish(QueryBuilder(GormDBs, table, args), "Count", <<"limit", 1>>, e,
               IF e = Nil THEN count > 0 ELSE FALSE))

Insert ==
  /\ Ready
  /\ \E table \in Tables, data \in Data, e \in EngineResults :
    Did("Insert", [table |-> table, data |-> data],
        Finish(Table(GetDBDefault(GormDBs), table), "Create", data, e, "none"))

InsertStruct ==
  /\ Ready
  /\ \E table \in Tables, data \in Data, e \in EngineResults :
    Did("InsertStruct", [table |-> table, data |-> data],
        IF setTimeFields(data).err # Nil THEN OutErr(setTimeFields(data).err)
        ELSE Finish(Table(GetDBDefault(GormDBs), table), "Create",
                    setTimeFields(data).data, e, "none"))

InsertBatch ==
  /\ Ready
  /\ \E table \in Tables, data \in Data, e \in EngineResults :
    Did("InsertBatch", [table |-> table, data |-> data],
        Finish(Table(GetDBDefault(GormDBs), table), "CreateInBatches",
               <<data, BatchSize>>, e, "none"))

InsertTx ==
  /\ Ready
  /\ \E tx \in TxHandles, table \in Tables, data \in Data, e \in EngineResults :
    Did("InsertTx", [tx |-> tx, table |-> table, data |-> data],
        InsertTxResult(tx, table, data, e))

InsertStructTx ==
  /\ Ready
  /\ \E tx \in TxHandles, table \in Tables, data \in Data, e \in EngineResults :
    Did("InsertStructTx", [tx |-> tx, table |-> table, data |-> data],
        InsertStructTxResult(tx, table, data, e))

InsertBatchTx ==
  /\ Ready
  /\ \E tx \in TxHandles, table \in Tables, data \in Data, e \in EngineResults :
    Did("InsertBatchTx", [tx |-> tx, table |-> table, data |-> data],
        InsertBatchTxResult(tx, table, data, e))

Update ==
  /\ Ready
  /\ \E table \in Tables, data \in Data, args \in FacadeArgs, e \in EngineResults :
    Did("Update", [table |-> table, data |-> data, args |-> args],
        UpdateResult(GormDBs, table, data, args, e))

UpdateTx ==
  /\ Ready
  /\ \E tx \in TxHandles, table \in Tables, data \in Data, args \in FacadeArgs,
     e \in EngineResults :
    Did("UpdateTx", [tx |-> tx, table |-> table, data |-> data, args |-> args],
        UpdateTxResult(tx, table, data, args, e))

Delete ==
  /\ Ready
  /\ \E table \in Tables, args \in FacadeArgs, e \in EngineResults :
    Did("Delete", [table |-> table, args |-> args],
        DeleteResult(GormDBs, table, args, e))

DeleteTx ==
  /\ Ready
  /\ \E tx \in TxHandles, table \in Tables, args \in FacadeArgs, e \in EngineResults :
    Did("DeleteTx", [tx |-> tx, table |-> table, args |-> args],
        DeleteTxResult(tx, table, args, e))

\* the caller has read the result of its call
Return ==
  /\ ~Ready
  /\ last' = Idle
  /\ UNCHANGED <<GormDBs, nextConn, txs>>

Next ==
  \/ Return
  \/ InitDBWithMap \/ InitGormDB \/ CloseAllDBs
  \/ BeginTx \/ BeginTxDefault \/ CommitTx
  \/ Query \/ QueryTx \/ Find \/ First \/ Last \/ Take \/ Count \/ Sum \/ Pluck
  \/ Scan \/ Paginate \/ Exists
  \/ Insert \/ InsertStruct \/ InsertBatch
  \/ InsertTx \/ InsertStructTx \/ InsertBatchTx
  \/ Update \/ UpdateTx \/ Delete \/ DeleteTx

Spec == Init /\ [][Next]_vars

----------------------------------------------------------------------------
(* The translator alone: the Where list is drawn at the start and         *)
(* applyGormWhere is applied to it on a fresh builder.                    *)

InitWhere ==
  /\ GormDBs = EmptyRegistry
  /\ nextConn = 0
  /\ txs = <<>>
  /\ \E n \in 0..MaxConds :
       \E flat \in [1..n -> CondSet], cut \in Cuts(n) :
         last = [op |-> "Where", in |-> [args |-> Grouped(flat, cut)],
                 out |-> "none", pre |-> EmptyRegistry]

ApplyGormWhere ==
  /\ last.op = "Where"
  /\ last' = [op |-> "applyGormWhere", in |-> last.in,
              out |-> applyGormWhere(NewQuery(Conn(1), "t"), last.in.args),
              pre |-> EmptyRegistry]
  /\ UNCHANGED <<GormDBs, nextConn, txs>>

NextWhere == ApplyGormWhere

SpecWhere == InitWhere /\ [][NextWhere]_vars

----------------------------------------------------------------------------
(* Properties *)

InitOps == { "InitDBWithMap", "InitGormDB" }
UpdateDeleteOps == { "Update", "UpdateTx", "Delete", "DeleteTx" }
TxOps == { "QueryTx", "InsertTx", "InsertStructTx", "InsertBatchTx", "UpdateTx", "DeleteTx" }
DefaultOps ==
  { "Query", "Find", "First", "Last", "Take", "Count", "Sum", "Pluck", "Scan",
    "Paginate", "Exists", "Insert", "InsertStruct", "InsertBatch", "Update", "Delete" }

IsConfigError(e) == \E n \in Names : e = ErrConfig(n)

\* C1: a call of InitDBWithMap (or InitGormDB) in which some configuration
\* lacks host, port, user or database name fails with the configuration
\* error and leaves the registry exactly as it was before the call.
C1_InvalidConfigLeavesRegistry ==
  (/\ last.op \in InitOps
   /\ \E n \in DOMAIN last.in.configs : MissingRequired(last.in.configs[n]))
  => (IsConfigError(last.out.err) /\ GormDBs = last.pre)

NoConditionError(op) ==
  IF op \in { "Update", "UpdateTx" } THEN ErrUpdateNoCond ELSE ErrDeleteNoCond

\* C2: Update, UpdateTx, Delete and DeleteTx called with zero condition
\* tuples over all the groups passed (no group, or only empty groups) fail
\* with the no-condition error and issue nothing to the engine.  Stated for
\* calls that have a handle to run on: a registered default connection, a
\* non-nil transaction.
C2_ZeroConditionsRefused ==
  (/\ last.op \in UpdateDeleteOps
   /\ Flatten(last.in.args) = <<>>
   /\ IF last.op \in TxOps THEN last.in.tx # NilDB
                           ELSE GetDBDefault(last.pre) # NilDB)
  => (last.out.err = NoConditionError(last.op) /\ last.out.calls = <<>>)

\* C3: CommitTx entered with a non-nil caller error never commits and never
\* loses that error: with a nil transaction it makes no engine call and the
\* error is unchanged; with a transaction it issues exactly one rollback, and
\* the final error is the original if the rollback succeeds, or a new error
\* holding both the rollback failure and the original message if it fails.
C3_FinishWithErrorRollsBack ==
  (last.op = "CommitTx" /\ last.in.err # Nil)
  => /\ \A i \in DOMAIN last.out.calls : last.out.calls[i].call # "Commit"
     /\ last.in.tx = NilDB
          => (last.out.calls = <<>> /\ last.out.err = last.in.err)
     /\ last.in.tx # NilDB
          => /\ Len(last.out.calls) = 1
             /\ last.out.calls[1].call = "Rollback"
             /\ last.out.calls[1].on = last.in.tx
             /\ last.out.calls[1].ok => last.out.err = last.in.err
             /\ ~last.out.calls[1].ok
                  => /\ last.out.err # last.in.err
                     /\ Contains(last.out.err, EngineErr)
                     /\ Contains(last.out.err, last.in.err)

\* C3 happens: a rollback that failed while an error was in flight
C3_Witness ==
  /\ last.op = "CommitTx"
  /\ last.in.err # Nil
  /\ last.in.tx # NilDB
  /\ last.out.calls # <<>>
  /\ ~last.out.calls[1].ok

\* C4: after CommitTx the caller's error is nil exactly when the transaction
\* was non-nil, the error was nil on entry and the one commit issued
\* succeeded; a nil transaction with a nil error yields the nil-transaction
\* error; a nil error with a transaction issues exactly one commit and no
\* rollback, and a failed commit overwrites the error with the commit
\* failure, with no further engine call.
C4_FinishNilIffCommitted ==
  last.op = "CommitTx"
  => /\ last.out.err = Nil
          <=> /\ last.in.tx # NilDB
              /\ last.in.err = Nil
              /\ Len(last.out.calls) = 1
              /\ last.out.calls[1].call = "Commit"
              /\ last.out.calls[1].ok
     /\ (last.in.tx = NilDB /\ last.in.err = Nil)
          => (last.out.err = ErrTxNil /\ last.out.calls = <<>>)
     /\ (last.in.tx # NilDB /\ last.in.err = Nil)
          => /\ Len(last.out.calls) = 1
             /\ last.out.calls[1].call = "Commit"
             /\ last.out.calls[1].on = last.in.tx
             /\ ~last.out.calls[1].ok
                  => (last.out.err # Nil /\ Contains(last.out.err, EngineErr))

\* C4 happens: a commit that failed
C4_Witness ==
  /\ last.op = "CommitTx"
  /\ last.in.tx # NilDB
  /\ last.in.err = Nil
  /\ last.out.calls # <<>>
  /\ ~last.out.calls[1].ok

\* the positions of the connections whose closing failed, in iteration order
CloseFailures == { i \in DOMAIN last.in.order : last.in.engine[last.in.order[i]] # "ok" }

LastCloseFailure == CHOOSE i \in CloseFailures : \A j \in CloseFailures : j <= i

\* what CloseAllDBs has done when it returns
CloseAllDBsPost ==
  /\ \A n \in DOMAIN last.pre :
       /\ \E i \in DOMAIN last.out.calls :
            last.out.calls[i].call = "DB" /\ last.out.calls[i].on = last.pre[n]
       /\ last.in.engine[n] # "DB fails"
            => \E i \in DOMAIN last.out.calls :
                 last.out.calls[i].call = "Close" /\ last.out.calls[i].on = last.pre[n]
  /\ CloseFailures = {} => last.out.err = Nil
  /\ CloseFailures # {}
       => LET n == last.in.order[LastCloseFailure]
          IN last.out.err = IF last.in.engine[n] = "DB fails"
                              THEN ErrCloseSqlDB(n, EngineErr)
                              ELSE ErrClose(n, EngineErr)
  /\ GormDBs = EmptyRegistry
  /\ \A name \in Names : GetDB(GormDBs, name) = NilDB
  /\ GetDBDefault(GormDBs) = NilDB

\* every name of the registry was put there by this call: the engine
\* opened its connection in it
RegisteredByThisCall ==
  /\ last.op \in InitOps
  /\ \A n \in DOMAIN GormDBs \ DOMAIN last.pre :
       \E i \in DOMAIN last.out.calls :
         last.out.calls[i].call = "Open" /\ last.out.calls[i].on = GormDBs[n]

C6_BeginFailsIffUnregistered ==
  last.op \in { "BeginTx", "BeginTxDefault" }
  => LET dbName == last.in.dbName
         notFound == /\ last.out.err = ErrNotFound(dbName)
                     /\ last.out.tx = NilDB
                     /\ last.out.calls = <<>>
     IN /\ notFound <=> dbName \notin DOMAIN last.pre
        /\ dbName \in DOMAIN last.pre
             => /\ Len(last.out.calls) = 1
                /\ last.out.calls[1].call = "Begin"
                /\ last.out.calls[1].on = last.pre[dbName]
                /\ last.out.tx # NilDB

\* C7: every transaction-bound operation given a nil transaction fails with
\* the nil-transaction error, whatever its other arguments, and makes no
\* engine call.
C7_NilTxRefused ==
  (last.op \in TxOps /\ last.in.tx = NilDB)
  => (last.out.err = ErrTxNil /\ last.out.calls = <<>>)

\* the conditions of the call under translation, in the order given
Given == Flatten(last.in.args)

\* a three-element condition that is dropped: its operator is no string or,
\* lower-cased, none of the known tokens, or it is a between whose value is
\* not a 2-element []interface{}
Dropped(c) ==
  /\ Len(c) = 3
  /\ \/ c[2].k # "string"
     \/ ToLower(c[2].v) \notin AllOps
     \/ /\ ToLower(c[2].v) \in OpsBetween
        /\ ~(c[3].k = "[]interface{}" /\ Len(c[3].v) = 2)

\* what is left of a list of conditions once the dropped ones are taken out
RECURSIVE Kept(_)
Kept(conds) ==
  IF conds = <<>> THEN <<>>
  ELSE IF Dropped(Head(conds)) THEN Kept(Tail(conds))
  ELSE <<Head(conds)>> \o Kept(Tail(conds))

\* predicate p is the translation of condition c: its text starts with the
\* condition's first element and it binds nothing that c does not carry
TranslationOf(p, c) ==
  /\ Len(c) >= 1
  /\ c[1].k = "string"
  /\ Len(p.sql) >= Len(c[1].v)
  /\ SubSeq(p.sql, 1, Len(c[1].v)) = c[1].v
  /\ Len(c) \notin {2, 3} => (p.sql = c[1].v /\ p.params = Tail(c))
  /\ Len(c) = 2 => p.params = <<c[2]>>
  /\ Len(c) = 3 =>
       \/ p.params = <<c[3]>>
       \/ (Len(c[3].v) = 2 /\ p.params = <<SliceElem(c[3], 1), SliceElem(c[3], 2)>>)

\* C8: for every list of condition groups, a dropped three-element
\* condition contributes no predicate and no parameter and raises no error,
\* and every other condition of the call is still translated to exactly one
\* predicate, in the order the conditions were given.  Stated for the calls
\* that carry a dropped condition and in which every field or raw
\* expression given is a string.
C8_DroppedConditionsAreSilent ==
  (/\ last.op = "applyGormWhere"
   /\ \E i \in DOMAIN Given : Dropped(Given[i])
   /\ \A i \in DOMAIN Given : Len(Given[i]) >= 1 => Given[i][1].k = "string")
  => /\ ~last.out.panicked
     /\ Len(last.out.preds) = Len(Kept(Given))
     /\ \A i \in DOMAIN last.out.preds : TranslationOf(last.out.preds[i], Kept(Given)[i])

\* every condition is one of the tuple forms of the DSL: it has a first
\* element and that element is a string
WellFormedCall == \A i \in DOMAIN Given : Len(Given[i]) >= 1 /\ Given[i][1].k = "string"

\* What C8 says holds of the calls whose conditions all start with a
\* string: the dropped ones leave no trace and the others are translated in
\* order.
DroppedAreSilentInWellFormedCalls ==
  (last.op = "applyGormWhere" /\ WellFormedCall)
  => /\ ~last.out.panicked
     /\ Len(last.out.preds) = Len(Kept(Given))
     /\ \A i \in DOMAIN last.out.preds : TranslationOf(last.out.preds[i], Kept(Given)[i])

\* C9: every condition tuple whose length is neither 2 nor 3 (0, 1, 4 or
\* more) becomes a raw-SQL predicate, its first element the text and the rest
\* the bound parameters in order, and the translator never fails or aborts on
\* it.  Stated for the calls made of such tuples only, each of them empty or
\* starting with a string.
C9_RawTuplesNeverAbort ==
  (/\ last.op = "applyGormWhere"
   /\ \A i \in DOMAIN Given :
        /\ Len(Given[i]) \notin {2, 3}
        /\ Len(Given[i]) >= 1 => Given[i][1].k = "string")
  => /\ ~last.out.panicked
     /\ Len(last.out.preds) = Len(Given)
     /\ \A i \in DOMAIN Given :
          /\ last.out.preds[i].sql = Given[i][1].v
          /\ last.out.preds[i].params = Tail(Given[i])

\* C10: in every registry state, every facade operation on the default
\* connection returns to its caller; when the default connection is absent it
\* makes no engine call and does not crash.
C10_AbsentDefaultDoesNotCrash ==
  (last.op \in DefaultOps /\ GetDBDefault(last.pre) = NilDB
   /\ (last.op \in UpdateDeleteOps => Flatten(last.in.args) # <<>>))
  => (~last.out.panicked /\ last.out.calls = <<>>)

====
